---- MODULE Spec2Model ----
(***************************************************************************)
(* User-identifier resolution of the Jira MCP server                       *)
(* (src/services/vendor.atlassian.users.service.ts): the UserCache, the    *)
(* two search strategies, the classifiers and resolveUserIdentifier; and   *)
(* the transitions controller                                              *)
(* (controllers/atlassian.issues.transitions.controller.ts) with its       *)
(* formatter and the MCP tool handlers over it                             *)
(* (tools/atlassian.issues.transitions.tool.ts).                           *)
(*                                                                         *)
(* A string is a sequence of one-character strings, so that toLowerCase    *)
(* and the regular expressions are computed, not assumed.  An optional     *)
(* field is <<>> when undefined and <<s>> when it holds the string s.      *)
(***************************************************************************)
EXTENDS Integers, Sequences, FiniteSets, TLC

VARIABLES
    cache,        \* UserCache.cache: lower-cased key -> [accountId, timestamp]
    now,          \* Date.now(), in milliseconds
    credentials,  \* TRUE iff getAtlassianCredentials() returns credentials
    pc,           \* per caller: where its resolveUserIdentifier call stands
    ident,        \* per caller: the identifier argument of the call
    users,        \* per caller: the local variable `users`
    inflight,     \* per caller: fetchAtlassian requests sent and not yet answered
    outcome,      \* per caller: what the call returned
    calls,        \* per caller: the strategy calls of the call, in order (history)
    returned,     \* the last call that returned a canonical ID: identifier, ID, time (history)
    written,      \* per key: the last UserCache.set since the last clear: ID, time (history)
    cleared,      \* keys the last clearUserCache() removed while no call was in flight (history)
    afterClear,   \* per caller: the call is the first one after such a clear (history)
    overtaken,    \* per caller: clearUserCache() ran while the call was in flight (history)
    arg,          \* the arguments of a direct call of isAccountId, isEmail or users.find
    value,        \* what that call returned
    step,         \* where the controller's transitionIssue call stands
    args,         \* the args of that call
    serviceCalls, \* the calls it made to atlassianIssuesService and the formatter, in order
    response,     \* what it returned or raised
    tool,         \* the MCP tool handler that is running
    result        \* what the handler returned to the MCP server

resolverVars == <<cache, now, credentials, pc, ident, users, inflight, outcome, calls,
                  returned, written, cleared, afterClear, overtaken>>
functionVars == <<arg, value>>
controllerVars == <<step, args, serviceCalls, response>>
toolVars == <<tool, result>>

vars == <<resolverVars, functionVars, controllerVars, toolVars>>

-----------------------------------------------------------------------------
(* Strings *)

UpperCase == <<"A", "B", "C", "D", "E", "F", "G", "H", "I", "J", "K", "L", "M",
               "N", "O", "P", "Q", "R", "S", "T", "U", "V", "W", "X", "Y", "Z">>
LowerCase == <<"a", "b", "c", "d", "e", "f", "g", "h", "i", "j", "k", "l", "m",
               "n", "o", "p", "q", "r", "s", "t", "u", "v", "w", "x", "y", "z">>

\* String.prototype.toLowerCase on one character
toLowerChar(c) ==
    IF \E i \in 1..Len(UpperCase) : UpperCase[i] = c
    THEN LowerCase[CHOOSE i \in 1..Len(UpperCase) : UpperCase[i] = c]
    ELSE c

\* String.prototype.toLowerCase
toLowerCase(s) == [i \in 1..Len(s) |-> toLowerChar(s[i])]

\* the character class [0-9a-f]
HexLower == {"0", "1", "2", "3", "4", "5", "6", "7", "8", "9",
             "a", "b", "c", "d", "e", "f"}

\* the character class \s (the members that occur in the alphabet used here)
WhiteSpace == {" ", "\t", "\n"}

\* the character class [^\s@]
NotSpaceNorAt(c) == c \notin WhiteSpace /\ c # "@"

\* /^[0-9a-f]{6}:/.test(identifier) || /^[0-9a-f-]{36}$/.test(identifier)
isAccountId(identifier) ==
    \/ /\ Len(identifier) >= 7
       /\ \A i \in 1..6 : identifier[i] \in HexLower
       /\ identifier[7] = ":"
    \/ /\ Len(identifier) = 36
       /\ \A i \in 1..36 : identifier[i] \in HexLower \cup {"-"}

\* the three character classes written [^\s], so that further "@" are accepted
isEmail_atAllowed(identifier) ==
    \E a \in 2..Len(identifier) : \E d \in (a + 2)..(Len(identifier) - 1) :
        /\ identifier[a] = "@"
        /\ identifier[d] = "."
        /\ \A i \in 1..Len(identifier) : identifier[i] \notin WhiteSpace

\* /^[^\s@]+@[^\s@]+\.[^\s@]+$/.test(identifier): a is where the "@" is matched
\* and d where the literal "." is matched
isEmail(identifier) ==
    \E a \in 2..Len(identifier) : \E d \in (a + 2)..(Len(identifier) - 1) :
        /\ identifier[a] = "@"
        /\ identifier[d] = "."
        /\ \A i \in 1..(a - 1) : NotSpaceNorAt(identifier[i])
        /\ \A i \in (a + 1)..(d - 1) : NotSpaceNorAt(identifier[i])
        /\ \A i \in (d + 1)..Len(identifier) : NotSpaceNorAt(identifier[i])

-----------------------------------------------------------------------------
(* UserCache *)

\* private readonly TTL = 1000 * 60 * 60
TTL == 3600000

\* the Map with no entries
EmptyCache == [k \in {} |-> [accountId |-> <<>>, timestamp |-> 0]]

\* the comparison written with <= : an entry is still served at exactly one TTL
Unexpired_le(entry, t) == t - entry.timestamp <= TTL

\* Date.now() - cached.timestamp < this.TTL
Unexpired(entry, t) == t - entry.timestamp < TTL

\* the lookup made with the identifier as given, not lower-cased
UserCacheGet_rawKey(c, t, identifier) ==
    IF identifier \in DOMAIN c /\ t - c[identifier].timestamp < TTL
    THEN <<c[identifier].accountId>> ELSE <<>>

\* UserCache.get, the value returned: <<>> is null, <<a>> the accountId a
UserCacheGet(c, t, identifier) ==
    LET k == toLowerCase(identifier) IN
    IF k \in DOMAIN c /\ Unexpired(c[k], t) THEN <<c[k].accountId>> ELSE <<>>

\* the timestamp of an entry that is served renewed
UserCacheAfterGet_touch(c, t, identifier) ==
    LET k == [i \in 1..Len(identifier) |-> toLowerChar(identifier[i])] IN
    IF k \notin DOMAIN c THEN c
    ELSE IF t - c[k].timestamp < TTL
    THEN [c EXCEPT ![k].timestamp = t]
    ELSE [x \in DOMAIN c \ {k} |-> c[x]]

\* the expired entry of the key left in the map
UserCacheAfterGet_keepExpired(c, t, identifier) == c

\* UserCache.get, the map it leaves: an expired entry of the key is deleted
UserCacheAfterGet(c, t, identifier) ==
    LET k == toLowerCase(identifier) IN
    IF k \in DOMAIN c /\ ~Unexpired(c[k], t)
    THEN [x \in DOMAIN c \ {k} |-> c[x]]
    ELSE c

\* the entry stored under the identifier as given, not lower-cased
UserCacheSet_rawKey(c, t, identifier, accountId) ==
    [x \in DOMAIN c \cup {identifier} |->
        IF x = identifier THEN [accountId |-> accountId, timestamp |-> t] ELSE c[x]]

\* an entry of the key that is already there is kept
UserCacheSet_ifAbsent(c, t, identifier, accountId) ==
    LET k == [i \in 1..Len(identifier) |-> toLowerChar(identifier[i])] IN
    [x \in DOMAIN c \cup {k} |->
        IF x \in DOMAIN c THEN c[x] ELSE [accountId |-> accountId, timestamp |-> t]]

\* the expired entries of the other keys evicted by a write
UserCacheSet_evictExpired(c, t, identifier, accountId) ==
    LET k == [i \in 1..Len(identifier) |-> toLowerChar(identifier[i])] IN
    [x \in {y \in DOMAIN c : t - c[y].timestamp < TTL} \cup {k} |->
        IF x = k THEN [accountId |-> accountId, timestamp |-> t] ELSE c[x]]

\* the ID of an entry that is already there replaced, and its timestamp kept
UserCacheSet_merge(c, t, identifier, accountId) ==
    LET k == [i \in 1..Len(identifier) |-> toLowerChar(identifier[i])] IN
    [x \in DOMAIN c \cup {k} |->
        IF x # k THEN c[x]
        ELSE [accountId |-> accountId,
              timestamp |-> IF k \in DOMAIN c THEN c[k].timestamp ELSE t]]

\* UserCache.set
UserCacheSet(c, t, identifier, accountId) ==
    LET k == toLowerCase(identifier) IN
    [x \in DOMAIN c \cup {k} |->
        IF x = k THEN [accountId |-> accountId, timestamp |-> t] ELSE c[x]]

-----------------------------------------------------------------------------
(* Search strategies *)

\* a strategy's return value: User[] | null
Null == [ok |-> FALSE, list |-> <<>>]
Found(list) == [ok |-> TRUE, list |-> list]

\* what fetchAtlassian does with a request: it throws, or resolves to a body
HttpError == [kind |-> "HttpError", users |-> <<>>]
NoUsersSection == [kind |-> "NoUsersSection", users |-> <<>>]
Body(list) == [kind |-> "Users", users |-> list]

\* searchUsersWithPicker after the await: response.users?.users || null,
\* and null from the catch block
PickerResult(resp) ==
    IF resp.kind = "Users" THEN Found(resp.users) ELSE Null

\* searchUsers after the await: the response itself, and null from the catch block
DirectoryResult(resp) ==
    IF resp.kind = "HttpError" THEN Null ELSE Found(resp.users)

StrategyResult(strategy, resp) ==
    IF strategy = "picker" THEN PickerResult(resp) ELSE DirectoryResult(resp)

-----------------------------------------------------------------------------
(* resolveUserIdentifier, the parts that compute *)

\* the test without its null check
NoResults_onlyEmpty(u) == u.ok /\ Len(u.list) = 0

\* !users || users.length === 0
NoResults(u) == ~u.ok \/ Len(u.list) = 0

\* u.field?.toLowerCase() === identifier.toLowerCase()
FieldEquals(field, identifier) ==
    field # <<>> /\ toLowerCase(field[1]) = toLowerCase(identifier)

\* the predicate given to users.find
ExactMatch(u, identifier) ==
    \/ FieldEquals(u.emailAddress, identifier)
    \/ FieldEquals(u.name, identifier)
    \/ FieldEquals(u.displayName, identifier)

\* the three fields compared without lower-casing either side
ChooseUser_caseSensitive(list, identifier) ==
    LET exact(u) == <<identifier>> \in {u.emailAddress, u.name, u.displayName} IN
    IF \E i \in 1..Len(list) : exact(list[i])
    THEN list[CHOOSE i \in 1..Len(list) :
                exact(list[i]) /\ \A j \in 1..(i - 1) : ~exact(list[j])]
    ELSE list[1]

\* users.find(...), and users[0] when it finds nothing
ChooseUser(list, identifier) ==
    IF \E i \in 1..Len(list) : ExactMatch(list[i], identifier)
    THEN list[CHOOSE i \in 1..Len(list) :
                /\ ExactMatch(list[i], identifier)
                /\ \A j \in 1..(i - 1) : ~ExactMatch(list[j], identifier)]
    ELSE list[1]

\* what a call returns
Absent == [kind |-> "absent", id |-> <<>>]
Id(a) == [kind |-> "id", id |-> a]
NoOutcome == [kind |-> "none", id |-> <<>>]

\* the chosen record returned without the test of its accountId
ResolveResult_noIdCheck(u, identifier) ==
    IF u.ok /\ Len(u.list) > 0
    THEN [kind |-> "id", id |-> ChooseUser(u.list, identifier).accountId]
    ELSE [kind |-> "absent", id |-> <<>>]

\* a chosen record without accountId replaced by the first record that has one
ResolveResult_nextWithId(u, identifier) ==
    IF u.ok /\ Len(u.list) > 0
    THEN LET user == ChooseUser(u.list, identifier)
             withId == {i \in 1..Len(u.list) : u.list[i].accountId # <<>>}
         IN  IF user.accountId # <<>> THEN [kind |-> "id", id |-> user.accountId]
             ELSE IF withId # {}
             THEN [kind |-> "id",
                   id |-> u.list[CHOOSE i \in withId : \A j \in withId : i <= j].accountId]
             ELSE [kind |-> "absent", id |-> <<>>]
    ELSE [kind |-> "absent", id |-> <<>>]

\* lines 232-255: the value returned once the chain has ended with `u`
ResolveResult(u, identifier) ==
    IF u.ok /\ Len(u.list) > 0
    THEN LET user == ChooseUser(u.list, identifier) IN
         IF user.accountId # <<>> THEN Id(user.accountId) ELSE Absent
    ELSE Absent

\* the await a call stands at: "picker" (line 219), "directory" (line 224),
\* "fallback" (line 229); "start" is the point before line 218
StrategyOf(stage) == IF stage = "directory" THEN "directory" ELSE "picker"

\* the picker tried first whatever the identifier's shape
NextStage_pickerFirst(identifier, stage, u) ==
    CASE stage = "start" -> "picker"
      [] stage = "picker" -> IF ~u.ok \/ Len(u.list) = 0 THEN "directory" ELSE "finish"
      [] stage = "directory" -> IF ~u.ok \/ Len(u.list) = 0 THEN "fallback" ELSE "finish"
      [] OTHER -> "finish"

\* the final picker call made even when the directory search found users
NextStage_alwaysFallback(identifier, stage, u) ==
    CASE stage = "start" -> IF isEmail(identifier) THEN "picker" ELSE "directory"
      [] stage = "picker" -> IF ~u.ok \/ Len(u.list) = 0 THEN "directory" ELSE "finish"
      [] stage = "directory" -> "fallback"
      [] OTHER -> "finish"

\* the final picker call repeated for as long as it finds nothing
NextStage_retryPicker(identifier, stage, u) ==
    CASE stage = "start" -> IF isEmail(identifier) THEN "picker" ELSE "directory"
      [] stage = "picker" -> IF ~u.ok \/ Len(u.list) = 0 THEN "directory" ELSE "finish"
      [] stage = "directory" -> IF ~u.ok \/ Len(u.list) = 0 THEN "fallback" ELSE "finish"
      [] OTHER -> IF ~u.ok \/ Len(u.list) = 0 THEN "fallback" ELSE "finish"

\* the directory search made even when the first picker call found users
NextStage_alwaysDirectory(identifier, stage, u) ==
    CASE stage = "start" -> IF isEmail(identifier) THEN "picker" ELSE "directory"
      [] stage = "picker" -> "directory"
      [] stage = "directory" -> IF ~u.ok \/ Len(u.list) = 0 THEN "fallback" ELSE "finish"
      [] OTHER -> "finish"

\* lines 218-230: where control goes after `stage` left `u` in users
NextStage(identifier, stage, u) ==
    CASE stage = "start" -> IF isEmail(identifier) THEN "picker" ELSE "directory"
      [] stage = "picker" -> IF NoResults(u) THEN "directory" ELSE "finish"
      [] stage = "directory" -> IF NoResults(u) THEN "fallback" ELSE "finish"
      [] OTHER -> "finish"

-----------------------------------------------------------------------------
(* The callers, the identifiers they pass and what the vendor answers *)

\* the concurrent callers of resolveUserIdentifier
Callers == {"c1", "c2"}

\* the clock is read one millisecond before and exactly at every whole TTL, up
\* to MaxHours of them, and one millisecond after the last
MaxHours == 1
Times ==
    {t \in UNION {{h * TTL - 1, h * TTL} : h \in 0..MaxHours} : t >= 0}
        \cup {MaxHours * TTL + 1}

EmptyIdentifier == <<>>
CanonicalIdentifier == <<"5", "b", "c", "7", "3", "a", ":", "1">>
Bob == <<"B", "o", "b">>
bob == <<"b", "o", "b">>
Mail == <<"a", "@", "b", ".", "c">>
MAIL == <<"A", "@", "b", ".", "c">>
Identifiers == {EmptyIdentifier, CanonicalIdentifier, Bob, bob, Mail}

\* an identifier that is canonical and email-shaped, and the same letters in
\* upper case, which is email-shaped only
CanonicalMail == <<"5", "b", "c", "7", "3", "a", ":", "a", "@", "b", ".", "c">>
CANONICALMAIL == <<"5", "B", "C", "7", "3", "A", ":", "a", "@", "b", ".", "c">>
\* the same letters in mixed case: email-shaped only
MixedCaseMail == <<"5", "B", "c", "7", "3", "a", ":", "a", "@", "b", ".", "c">>
CanonicalIdentifiers == {CanonicalIdentifier, CanonicalMail, CANONICALMAIL, MixedCaseMail}

Id1 == <<"i", "1">>
Id2 == <<"i", "2">>
UserBob ==
    [accountId |-> Id1, emailAddress |-> <<>>, name |-> <<bob>>, displayName |-> <<>>]
UserEve ==
    [accountId |-> Id2, emailAddress |-> <<Mail>>, name |-> <<>>,
     displayName |-> << <<"E", "v", "e">> >>]
UserNoId ==
    [accountId |-> <<>>, emailAddress |-> <<>>, name |-> <<>>, displayName |-> <<Bob>>]
UserLists == {<<>>, <<UserBob>>, <<UserEve, UserBob>>, <<UserNoId, UserBob>>}

\* what fetchAtlassian can do with a request of a strategy
Responses(strategy) ==
    {HttpError} \cup {Body(l) : l \in UserLists}
        \cup (IF strategy = "picker" THEN {NoUsersSection} ELSE {})

-----------------------------------------------------------------------------
(* The calls *)

Keys == {toLowerCase(i) : i \in Identifiers \cup CanonicalIdentifiers}
NoWrites == [k \in Keys |-> <<>>]

\* lines 99-113 of a strategy, up to its await: without credentials
\* createAuthMissingError is thrown inside the try block and no request is sent
NewCall(strategy, query, creds) ==
    [strategy |-> strategy, query |-> query,
     status |-> IF creds THEN "pending" ELSE "AuthMissing", result |-> Null]

Answered(call, resp) ==
    [call EXCEPT !.status = resp.kind,
                 !.result = StrategyResult(call.strategy, resp)]

\* number of fetchAtlassian requests a call has issued
NetworkCalls(log) ==
    Cardinality({i \in 1..Len(log) : log[i].status # "AuthMissing"})

Remember(identifier, out) ==
    IF out.kind = "id"
    THEN <<[identifier |-> identifier, id |-> out.id, time |-> now]>>
    ELSE returned

\* the call of caller p returns `out`
Return(p, identifier, out, u, log, fl, c) ==
    /\ pc' = [pc EXCEPT ![p] = "done"]
    /\ outcome' = [outcome EXCEPT ![p] = out]
    /\ users' = [users EXCEPT ![p] = u]
    /\ calls' = [calls EXCEPT ![p] = log]
    /\ inflight' = [inflight EXCEPT ![p] = fl]
    /\ cache' = c
    /\ returned' = Remember(identifier, out)

\* lines 218-255 from the point where `stage` has left `u` in users: the next
\* strategy is called, or the candidate is chosen, cached and returned
Proceed(p, identifier, stage, u, log, fl, c) ==
    LET nxt == NextStage(identifier, stage, u)
        out == ResolveResult(u, identifier)
    IN  IF nxt = "finish"
        THEN /\ Return(p, identifier, out, u, log, fl,
                    IF out.kind = "id"
                    THEN UserCacheSet(c, now, identifier, out.id) ELSE c)
             /\ written' = IF out.kind = "id"
                           THEN [written EXCEPT ![toLowerCase(identifier)] =
                                    <<[id |-> out.id, time |-> now]>>]
                           ELSE written
        ELSE /\ pc' = [pc EXCEPT ![p] = nxt]
             /\ users' = [users EXCEPT ![p] = u]
             /\ calls' = [calls EXCEPT ![p] =
                    Append(log, NewCall(StrategyOf(nxt), identifier, credentials))]
             /\ inflight' = [inflight EXCEPT ![p] = fl + IF credentials THEN 1 ELSE 0]
             /\ cache' = c
             /\ UNCHANGED <<outcome, returned, written>>

\* the cache looked up before the identifier is tested for the canonical shape
Resolve_cacheFirst(p, identifier) ==
    /\ UNCHANGED <<functionVars, controllerVars, toolVars>>
    /\ pc[p] = "idle"
    /\ ident' = [ident EXCEPT ![p] = identifier]
    /\ afterClear' = [afterClear EXCEPT ![p] = toLowerCase(identifier) \in cleared]
    /\ cleared' = {}
    /\ overtaken' = [overtaken EXCEPT ![p] = FALSE]
    /\ UNCHANGED <<now, credentials>>
    /\ IF identifier = <<>>
       THEN Return(p, identifier, Absent, Null, <<>>, 0, cache) /\ UNCHANGED written
       ELSE LET cached == UserCacheGet(cache, now, identifier)
                c == UserCacheAfterGet(cache, now, identifier)
            IN  IF cached # <<>> /\ cached[1] # <<>>
                THEN Return(p, identifier, Id(cached[1]), Null, <<>>, 0, c) /\ UNCHANGED written
                ELSE IF isAccountId(identifier)
                THEN Return(p, identifier, Id(identifier), Null, <<>>, 0, c) /\ UNCHANGED written
                ELSE Proceed(p, identifier, "start", Null, <<>>, 0, c)

\* the call without its test for the empty identifier
Resolve_noEmptyCheck(p, identifier) ==
    /\ UNCHANGED <<functionVars, controllerVars, toolVars>>
    /\ pc[p] = "idle"
    /\ ident' = [ident EXCEPT ![p] = identifier]
    /\ afterClear' = [afterClear EXCEPT ![p] = toLowerCase(identifier) \in cleared]
    /\ cleared' = {}
    /\ overtaken' = [overtaken EXCEPT ![p] = FALSE]
    /\ UNCHANGED <<now, credentials>>
    /\ IF isAccountId(identifier)
       THEN Return(p, identifier, Id(identifier), Null, <<>>, 0, cache) /\ UNCHANGED written
       ELSE LET cached == UserCacheGet(cache, now, identifier)
                c == UserCacheAfterGet(cache, now, identifier)
            IN  IF cached # <<>> /\ cached[1] # <<>>
                THEN Return(p, identifier, Id(cached[1]), Null, <<>>, 0, c) /\ UNCHANGED written
                ELSE Proceed(p, identifier, "start", Null, <<>>, 0, c)

\* resolveUserIdentifier(identifier), from its entry to its first await or return
Resolve(p, identifier) ==
    /\ UNCHANGED <<functionVars, controllerVars, toolVars>>
    /\ pc[p] = "idle"
    /\ ident' = [ident EXCEPT ![p] = identifier]
    /\ afterClear' = [afterClear EXCEPT ![p] = toLowerCase(identifier) \in cleared]
    /\ cleared' = {}
    /\ overtaken' = [overtaken EXCEPT ![p] = FALSE]
    /\ UNCHANGED <<now, credentials>>
    /\ IF identifier = <<>>
       THEN Return(p, identifier, Absent, Null, <<>>, 0, cache) /\ UNCHANGED written
       ELSE IF isAccountId(identifier)
       THEN Return(p, identifier, Id(identifier), Null, <<>>, 0, cache) /\ UNCHANGED written
       ELSE LET cached == UserCacheGet(cache, now, identifier)
                c == UserCacheAfterGet(cache, now, identifier)
            IN  IF cached # <<>> /\ cached[1] # <<>>
                THEN Return(p, identifier, Id(cached[1]), Null, <<>>, 0, c) /\ UNCHANGED written
                ELSE Proceed(p, identifier, "start", Null, <<>>, 0, c)

Awaiting(p) == pc[p] \in {"picker", "directory", "fallback"}

\* a resolution that clearUserCache() overtook returns without UserCache.set
FetchReturns_cancelledByClear(p, resp) ==
    /\ UNCHANGED <<functionVars, controllerVars, toolVars>>
    /\ Awaiting(p)
    /\ calls[p][Len(calls[p])].status = "pending"
    /\ LET n == Len(calls[p])
           log == [calls[p] EXCEPT ![n] = Answered(calls[p][n], resp)]
       IN  IF overtaken[p] /\ NextStage(ident[p], pc[p], log[n].result) = "finish"
           THEN /\ Return(p, ident[p], ResolveResult(log[n].result, ident[p]),
                          log[n].result, log, inflight[p] - 1, cache)
                /\ UNCHANGED written
           ELSE Proceed(p, ident[p], pc[p], log[n].result, log, inflight[p] - 1, cache)
    /\ UNCHANGED <<now, credentials, ident, cleared, afterClear, overtaken>>

\* the awaited fetchAtlassian settles with resp; the strategy returns, and
\* resolveUserIdentifier runs on to its next await or return
FetchReturns(p, resp) ==
    /\ UNCHANGED <<functionVars, controllerVars, toolVars>>
    /\ Awaiting(p)
    /\ calls[p][Len(calls[p])].status = "pending"
    /\ LET n == Len(calls[p])
           log == [calls[p] EXCEPT ![n] = Answered(calls[p][n], resp)]
       IN  Proceed(p, ident[p], pc[p], log[n].result, log, inflight[p] - 1, cache)
    /\ UNCHANGED <<now, credentials, ident, cleared, afterClear, overtaken>>

\* the strategy call made again, until credentials are configured
AuthMissingCaught_retry(p) ==
    /\ UNCHANGED <<functionVars, controllerVars, toolVars>>
    /\ Awaiting(p)
    /\ calls[p][Len(calls[p])].status = "AuthMissing"
    /\ calls' = [calls EXCEPT ![p][Len(calls[p])] =
                    NewCall(StrategyOf(pc[p]), ident[p], credentials)]
    /\ inflight' = [inflight EXCEPT ![p] = @ + IF credentials THEN 1 ELSE 0]
    /\ UNCHANGED <<cache, pc, users, outcome, returned, written>>
    /\ UNCHANGED <<now, credentials, ident, cleared, afterClear, overtaken>>

\* lines 120-123 after the throw of line 102 or 141: the catch block returns null
AuthMissingCaught(p) ==
    /\ UNCHANGED <<functionVars, controllerVars, toolVars>>
    /\ Awaiting(p)
    /\ calls[p][Len(calls[p])].status = "AuthMissing"
    /\ Proceed(p, ident[p], pc[p], Null, calls[p], inflight[p], cache)
    /\ UNCHANGED <<now, credentials, ident, cleared, afterClear, overtaken>>

\* the caller has taken the value the call returned
Completed(p) ==
    /\ UNCHANGED <<functionVars, controllerVars, toolVars>>
    /\ pc[p] = "done"
    /\ pc' = [pc EXCEPT ![p] = "idle"]
    /\ ident' = [ident EXCEPT ![p] = <<>>]
    /\ users' = [users EXCEPT ![p] = Null]
    /\ outcome' = [outcome EXCEPT ![p] = NoOutcome]
    /\ calls' = [calls EXCEPT ![p] = <<>>]
    /\ afterClear' = [afterClear EXCEPT ![p] = FALSE]
    /\ overtaken' = [overtaken EXCEPT ![p] = FALSE]
    /\ UNCHANGED <<cache, now, credentials, inflight, returned, written, cleared>>

\* a clear that leaves the entries in the map
ClearUserCache_keep ==
    /\ UNCHANGED <<functionVars, controllerVars, toolVars>>
    /\ cache' = cache
    /\ cleared' = IF \A p \in Callers : pc[p] \in {"idle", "done"}
                  THEN DOMAIN cache ELSE {}
    /\ returned' = <<>>
    /\ written' = [k \in DOMAIN written |-> <<>>]
    /\ overtaken' = [p \in Callers |-> overtaken[p] \/ Awaiting(p)]
    /\ UNCHANGED <<now, credentials, pc, ident, users, inflight, outcome, calls,
                   afterClear>>

\* clearUserCache()
ClearUserCache ==
    /\ UNCHANGED <<functionVars, controllerVars, toolVars>>
    /\ cache' = EmptyCache
    /\ cleared' = IF \A p \in Callers : pc[p] \in {"idle", "done"}
                  THEN DOMAIN cache ELSE {}
    /\ returned' = <<>>
    /\ written' = NoWrites
    /\ overtaken' = [p \in Callers |-> overtaken[p] \/ Awaiting(p)]
    /\ UNCHANGED <<now, credentials, pc, ident, users, inflight, outcome, calls,
                   afterClear>>

\* time passes
Tick(t) ==
    /\ UNCHANGED <<functionVars, controllerVars, toolVars>>
    /\ t > now
    /\ now' = t
    /\ UNCHANGED <<cache, credentials, pc, ident, users, inflight, outcome, calls,
                   returned, written, cleared, afterClear, overtaken>>

\* the credentials are configured or removed
SetCredentials(b) ==
    /\ UNCHANGED <<functionVars, controllerVars, toolVars>>
    /\ b # credentials
    /\ credentials' = b
    /\ UNCHANGED <<cache, now, pc, ident, users, inflight, outcome, calls,
                   returned, written, cleared, afterClear, overtaken>>

-----------------------------------------------------------------------------
(* Direct calls of isAccountId, isEmail and users.find *)

\* the strings of the service's tests
AccountId557058 ==
    <<"5", "5", "7", "0", "5", "8", ":", "1", "2", "3", "4", "5", "6", "7",
      "8", "-", "1", "2", "3", "4", "-", "1", "2", "3", "4", "-", "1", "2",
      "3", "4", "-", "1", "2", "3", "4", "5", "6", "7", "8", "9", "a", "b",
      "c">>
AccountId5bc73a ==
    <<"5", "b", "c", "7", "3", "a", ":", "a", "b", "c", "d", "e", "f", "1",
      "2", "-", "3", "4", "5", "6", "-", "7", "8", "9", "0", "-", "a", "b",
      "c", "d", "-", "e", "f", "1", "2", "3", "4", "5", "6", "7", "8", "9",
      "0">>
Uuid ==
    <<"1", "2", "3", "4", "5", "6", "7", "8", "-", "1", "2", "3", "4", "-",
      "1", "2", "3", "4", "-", "1", "2", "3", "4", "-", "1", "2", "3", "4",
      "5", "6", "7", "8", "9", "a", "b", "c">>
JohnDoeMail ==
    <<"j", "o", "h", "n", ".", "d", "o", "e", "@", "e", "x", "a", "m", "p",
      "l", "e", ".", "c", "o", "m">>
TaggedMail ==
    <<"u", "s", "e", "r", "+", "t", "a", "g", "@", "d", "o", "m", "a", "i",
      "n", ".", "c", "o", ".", "u", "k">>
johndoe ==
    <<"j", "o", "h", "n", "d", "o", "e">>
JohnDoe ==
    <<"J", "o", "h", "n", " ", "D", "o", "e">>
ShortPrefixed ==
    <<"5", "5", "7", "0", "5", "8", ":", "1", "2", "3", "4", "5", "6", "7",
      "8">>
NoLocalPart ==
    <<"@", "e", "x", "a", "m", "p", "l", "e", ".", "c", "o", "m">>
NoDomain ==
    <<"u", "s", "e", "r", "@">>
TestStrings ==
    {AccountId557058, AccountId5bc73a, Uuid, JohnDoeMail, TaggedMail, johndoe,
     JohnDoe, ShortPrefixed, NoLocalPart, NoDomain, CanonicalMail}

\* n times the character c
Repeat(c, n) == [i \in 1..n |-> c]

\* hexadecimal prefixes of 0 to MaxPrefix characters before a colon, and
\* strings of hexadecimal characters around the length of a UUID
MaxPrefix == 9
Prefixed == {Repeat("a", n) \o <<":", "x">> : n \in 0..MaxPrefix}
UuidLong == {Repeat("a", n) : n \in 35..37}

\* every string of up to MaxLen characters of Alphabet
MaxLen == 5
Alphabet == {"a", "5", ":", "@", ".", " "}
ShortStrings == UNION {[1..n -> Alphabet] : n \in 0..MaxLen}

Strings == ShortStrings \cup TestStrings \cup Prefixed \cup UuidLong

\* the candidate lists given to users.find, of up to MaxCandidates records
MaxCandidates == 3
Id3 == <<"i", "3">>
UserMAIL ==
    [accountId |-> Id3, emailAddress |-> <<MAIL>>, name |-> <<>>, displayName |-> <<>>]
Candidates == {UserBob, UserEve, UserNoId, UserMAIL}
CandidateLists == UNION {[1..n -> Candidates] : n \in 1..MaxCandidates}
FindIdentifiers == {Bob, bob, Mail, MAIL}

NoArg == [identifier |-> <<>>, list |-> <<>>]
NotCalled == [fn |-> "none", result |-> FALSE]

InitFunction == arg = NoArg /\ value = NotCalled

\* isAccountId(arg.identifier)
CallIsAccountId ==
    /\ value.fn = "none"
    /\ value' = [fn |-> "isAccountId", result |-> isAccountId(arg.identifier)]
    /\ UNCHANGED <<arg, resolverVars, controllerVars, toolVars>>

\* isEmail(arg.identifier)
CallIsEmail ==
    /\ value.fn = "none"
    /\ value' = [fn |-> "isEmail", result |-> isEmail(arg.identifier)]
    /\ UNCHANGED <<arg, resolverVars, controllerVars, toolVars>>

\* lines 234-244 on the list arg.list: users.find(...), else users[0]
CallFind ==
    /\ value.fn = "none"
    /\ value' = [fn |-> "find", result |-> ChooseUser(arg.list, arg.identifier)]
    /\ UNCHANGED <<arg, resolverVars, controllerVars, toolVars>>

-----------------------------------------------------------------------------
(* transitionIssue of the transitions controller *)

\* TransitionIssueToolArgsType: an optional member is <<>> when undefined
IssueKeys == {"TEST-123"}
TransitionIds == {"21", "31"}
Comments == {<<>>, <<"">>, <<"Starting work on this issue">>}
FieldsArgs == {<<>>, <<"assignee">>}
TransitionArgs ==
    [issueIdOrKey : IssueKeys, transitionId : TransitionIds, comment : Comments,
     fields : FieldsArgs, update : {<<>>}]

\* the issues the service's get resolves to; fields.status is optional
Issues ==
    [key : IssueKeys, summary : {"Test Issue"}, status : {<<>>, <<"">>, <<"In Progress">>}]

\* what a service call is rejected with
Errors == {"Invalid transition", "Failed to add comment"}

\* if (args.comment): undefined and the empty string are falsy
Truthy(opt) == opt # <<>> /\ opt[1] # ""

\* formatTransitionResult: the values interpolated into its lines, in order
formatTransitionResult(issueIdOrKey, transitionId, updatedIssue) ==
    <<"# Transition Completed Successfully", issueIdOrKey, updatedIssue.key,
      updatedIssue.summary,
      IF Truthy(updatedIssue.status) THEN updatedIssue.status[1] ELSE "Unknown",
      transitionId>>

\* lines 166-172
TransitionParams(a) ==
    [transition |-> [id |-> a.transitionId], fields |-> a.fields, update |-> a.update]

\* a call of a function of atlassianIssuesService, or of the formatter
ServiceCall(fn, issueIdOrKey, params) ==
    [fn |-> fn, issueIdOrKey |-> issueIdOrKey, params |-> params, status |-> "pending",
     error |-> ""]

\* the last call of the log has resolved
Resolved(log) == [log EXCEPT ![Len(log)].status = "resolved"]

\* the last call of the log was rejected with e
Rejected(log, e) ==
    [log EXCEPT ![Len(log)].status = "rejected", ![Len(log)].error = e]

\* lines 193-195: the call of get
GetCall(a) == ServiceCall("get", a.issueIdOrKey, [fields |-> <<"status", "summary">>])

\* lines 183-187: the call of addComment
AddCommentCall(a) ==
    ServiceCall("addComment", a.issueIdOrKey, [body |-> [body |-> a.comment[1]]])

NoArgs ==
    [issueIdOrKey |-> "", transitionId |-> "", comment |-> <<>>, fields |-> <<>>,
     update |-> <<>>]
NoResponse == [kind |-> "none", content |-> <<>>, error |-> ""]

InitController ==
    /\ step = "idle"
    /\ args = NoArgs
    /\ serviceCalls = <<>>
    /\ response = NoResponse

\* the comment tested for being defined, so that an empty comment is added
AfterTransition_definedComment(a) == IF a.comment # <<>> THEN "addComment" ELSE "get"

\* line 181
AfterTransition(a) == IF Truthy(a.comment) THEN "addComment" ELSE "get"

\* transitionIssue(a), up to the await of line 175
TransitionIssue(a) ==
    /\ step = "idle"
    /\ step' = "transitionIssue"
    /\ args' = a
    /\ serviceCalls' =
            <<ServiceCall("transitionIssue", a.issueIdOrKey, TransitionParams(a))>>
    /\ response' = NoResponse
    /\ UNCHANGED <<resolverVars, functionVars, toolVars>>

\* the service's transitionIssue resolves: lines 180-195, up to the next await
TransitionResolves ==
    /\ step = "transitionIssue"
    /\ step' = AfterTransition(args)
    /\ serviceCalls' =
            Append(Resolved(serviceCalls),
                   IF AfterTransition(args) = "addComment"
                   THEN AddCommentCall(args) ELSE GetCall(args))
    /\ UNCHANGED <<args, response, resolverVars, functionVars, toolVars>>

\* the service's addComment resolves: lines 188-195, up to the await of get
AddCommentResolves ==
    /\ step = "addComment"
    /\ step' = "get"
    /\ serviceCalls' = Append(Resolved(serviceCalls), GetCall(args))
    /\ UNCHANGED <<args, response, resolverVars, functionVars, toolVars>>

\* the service's get resolves to updatedIssue: lines 197-203
GetResolves(updatedIssue) ==
    /\ step = "get"
    /\ step' = "returned"
    /\ serviceCalls' =
            Append(Resolved(serviceCalls),
                   [ServiceCall("formatTransitionResult", args.issueIdOrKey,
                                <<args.issueIdOrKey, args.transitionId, updatedIssue>>)
                        EXCEPT !.status = "resolved"])
    /\ response' =
            [kind |-> "content",
             content |-> formatTransitionResult(args.issueIdOrKey, args.transitionId,
                                                updatedIssue),
             error |-> ""]
    /\ UNCHANGED <<args, resolverVars, functionVars, toolVars>>

\* a failure of addComment caught and passed over: the issue is re-fetched
ServiceRejects_commentIgnored(e) ==
    /\ step \in {"transitionIssue", "addComment", "get"}
    /\ IF step = "addComment"
       THEN /\ step' = "get"
            /\ serviceCalls' = Append(Rejected(serviceCalls, e), GetCall(args))
            /\ response' = response
       ELSE /\ step' = "raised"
            /\ serviceCalls' = Rejected(serviceCalls, e)
            /\ response' = [kind |-> "error", content |-> <<>>, error |-> e]
    /\ UNCHANGED <<args, resolverVars, functionVars, toolVars>>

\* a failure after the transition compensated: the issue is sent back through
\* another transition before the error is raised
ServiceRejects_undo(e) ==
    /\ step \in {"transitionIssue", "addComment", "get"}
    /\ step' = "raised"
    /\ serviceCalls' =
            IF step = "transitionIssue"
            THEN Rejected(serviceCalls, e)
            ELSE Append(Rejected(serviceCalls, e),
                        [ServiceCall("transitionIssue", args.issueIdOrKey,
                                     TransitionParams(args))
                            EXCEPT !.status = "resolved"])
    /\ response' = [kind |-> "error", content |-> <<>>, error |-> e]
    /\ UNCHANGED <<args, resolverVars, functionVars, toolVars>>

\* the awaited service call is rejected with e: the await throws, nothing
\* catches it, and the controller's promise is rejected with e
ServiceRejects(e) ==
    /\ step \in {"transitionIssue", "addComment", "get"}
    /\ step' = "raised"
    /\ serviceCalls' = Rejected(serviceCalls, e)
    /\ response' = [kind |-> "error", content |-> <<>>, error |-> e]
    /\ UNCHANGED <<args, resolverVars, functionVars, toolVars>>

\* the caller has taken what the controller returned or raised
ControllerDone ==
    /\ step \in {"returned", "raised"}
    /\ step' = "idle"
    /\ args' = NoArgs
    /\ serviceCalls' = <<>>
    /\ response' = NoResponse
    /\ UNCHANGED <<resolverVars, functionVars, toolVars>>

-----------------------------------------------------------------------------
(* The MCP tool handlers of the transitions tools *)

NoTool == "none"
NoResult == [kind |-> "none", content |-> <<>>]

InitTool == tool = NoTool /\ result = NoResult

\* GetTransitionsResponse: the transitions the vendor lists for an issue; an
\* optional member is <<>> when undefined
StartProgress ==
    [id |-> "21", name |-> "Start Progress",
     to |-> [name |-> "In Progress", description |-> <<>>, statusCategory |-> <<>>],
     hasScreen |-> FALSE, fields |-> <<>>]
Resolve31 ==
    [id |-> "31", name |-> "Resolve Issue",
     to |-> [name |-> "Done", description |-> <<"Work is complete">>,
             statusCategory |-> <<[name |-> "Done", colorName |-> "green"]>>],
     hasScreen |-> TRUE,
     fields |-> <<[fieldId |-> "resolution", name |-> <<"Resolution">>, required |-> TRUE],
                  [fieldId |-> "customfield_1", name |-> <<>>, required |-> FALSE]>>]
GetTransitionsResponses ==
    {[transitions |-> <<>>], [transitions |-> << <<>> >>],
     [transitions |-> << <<StartProgress>> >>],
     [transitions |-> << <<StartProgress, Resolve31>> >>]}

\* formatter lines 56-59: the line of one field of a transition's screen
FieldLine(field) ==
    <<"- field", IF Truthy(field.name) THEN field.name[1] ELSE field.fieldId,
      IF field.required THEN "**[Required]**" ELSE "[Optional]">>

\* formatter lines 33-66: the lines of the transition at position index
TransitionLines(transition, index) ==
    <<  <<"## transition", index, transition.name>>,
        <<"**ID:**", transition.id>>,
        <<"**Target Status:**", transition.to.name>> >>
    \o (IF Truthy(transition.to.description)
        THEN << <<"**Description:**", transition.to.description[1]>> >> ELSE <<>>)
    \o (IF transition.to.statusCategory # <<>>
        THEN << <<"**Category:**", transition.to.statusCategory[1].name,
                  transition.to.statusCategory[1].colorName>> >>
        ELSE <<>>)
    \o (IF transition.hasScreen
        THEN << <<"Note: This transition has a screen with additional fields.">> >>
             \o (IF Len(transition.fields) > 0
                 THEN << <<"### Required/Available Fields:">> >>
                      \o [i \in 1..Len(transition.fields) |->
                              FieldLine(transition.fields[i])]
                 ELSE <<>>)
        ELSE <<>>)
    \o << <<"---">> >>

RECURSIVE AllTransitionLines(_, _)
AllTransitionLines(transitions, from) ==
    IF from > Len(transitions) THEN <<>>
    ELSE TransitionLines(transitions[from], from)
            \o AllTransitionLines(transitions, from + 1)

\* formatTransitions: its lines, each with the values interpolated into it
formatTransitions(resp, issueIdOrKey) ==
    IF resp.transitions = <<>> \/ Len(resp.transitions[1]) = 0
    THEN << <<"# Available Transitions for", issueIdOrKey>>,
            <<"*No transitions available from the current status.*">> >>
    ELSE << <<"# Available Transitions for", issueIdOrKey>>,
            <<"Found", Len(resp.transitions[1])>> >>
         \o AllTransitionLines(resp.transitions[1], 1)
         \o << <<"## Usage", issueIdOrKey>> >>

\* the imported formatErrorForMcpTool, of which the handlers use the content
\* member only: the term that names the error it was given
formatErrorForMcpTool(err) == [content |-> <<"formatErrorForMcpTool", err>>]

\* controller getTransitions(a), up to the await of line 138
GetTransitions(a) ==
    /\ step = "idle"
    /\ step' = "getTransitions"
    /\ args' = a
    /\ serviceCalls' = <<ServiceCall("getTransitions", a.issueIdOrKey, <<>>)>>
    /\ response' = NoResponse

\* the service's getTransitions resolves to resp: lines 142-146
GetTransitionsResolves(resp) ==
    /\ step = "getTransitions"
    /\ step' = "returned"
    /\ serviceCalls' = Resolved(serviceCalls)
    /\ response' =
            [kind |-> "content", content |-> formatTransitions(resp, args.issueIdOrKey),
             error |-> ""]
    /\ UNCHANGED <<args, resolverVars, functionVars, toolVars>>

\* the service's getTransitions is rejected with e: nothing catches it
GetTransitionsRejects(e) ==
    /\ step = "getTransitions"
    /\ step' = "raised"
    /\ serviceCalls' = Rejected(serviceCalls, e)
    /\ response' = [kind |-> "error", content |-> <<>>, error |-> e]
    /\ UNCHANGED <<args, resolverVars, functionVars, toolVars>>

\* GetTransitionsToolArgsType, of which the controller reads issueIdOrKey
GetTransitionsArgs == {[NoArgs EXCEPT !.issueIdOrKey = k] : k \in IssueKeys}

\* tool handler getTransitions(a), lines 31-41: up to the await of the controller
ToolGetTransitions(a) ==
    /\ tool = NoTool
    /\ tool' = "getTransitions"
    /\ result' = NoResult
    /\ GetTransitions(a)
    /\ UNCHANGED <<resolverVars, functionVars>>

\* tool handler transitionIssue(a), lines 72-82: up to the await of the controller
ToolTransitionIssue(a) ==
    /\ tool = NoTool
    /\ tool' = "transitionIssue"
    /\ result' = NoResult
    /\ step = "idle"
    /\ step' = "transitionIssue"
    /\ args' = a
    /\ serviceCalls' =
            <<ServiceCall("transitionIssue", a.issueIdOrKey, TransitionParams(a))>>
    /\ response' = NoResponse
    /\ UNCHANGED <<resolverVars, functionVars>>

\* the handler without its catch: the controller's error goes on to the server
ToolReturns_rethrow ==
    /\ tool # NoTool
    /\ result = NoResult
    /\ step \in {"returned", "raised"}
    /\ result' =
            IF step = "returned"
            THEN [kind |-> "content",
                  content |-> <<[type |-> "text", text |-> response.content]>>]
            ELSE [kind |-> "raised", content |-> <<response.error>>]
    /\ UNCHANGED <<tool, controllerVars, resolverVars, functionVars>>

\* the controller's promise settles: lines 43-52 and 84-93 when it resolved,
\* the catch of lines 53-59 and 94-100 when it was rejected
ToolReturns ==
    /\ tool # NoTool
    /\ result = NoResult
    /\ step \in {"returned", "raised"}
    /\ result' =
            IF step = "returned"
            THEN [kind |-> "content",
                  content |-> <<[type |-> "text", text |-> response.content]>>]
            ELSE [kind |-> "content",
                  content |-> formatErrorForMcpTool(response.error).content]
    /\ UNCHANGED <<tool, controllerVars, resolverVars, functionVars>>

\* the MCP server has taken what the handler returned
ToolDone ==
    /\ tool # NoTool
    /\ result # NoResult
    /\ tool' = NoTool
    /\ result' = NoResult
    /\ step' = "idle"
    /\ args' = NoArgs
    /\ serviceCalls' = <<>>
    /\ response' = NoResponse
    /\ UNCHANGED <<resolverVars, functionVars>>
-----------------------------------------------------------------------------
(* The specifications *)

InitResolver ==
    /\ cache = EmptyCache
    /\ now = 0
    /\ credentials \in BOOLEAN
    /\ pc = [p \in Callers |-> "idle"]
    /\ ident = [p \in Callers |-> <<>>]
    /\ users = [p \in Callers |-> Null]
    /\ inflight = [p \in Callers |-> 0]
    /\ outcome = [p \in Callers |-> NoOutcome]
    /\ calls = [p \in Callers |-> <<>>]
    /\ returned = <<>>
    /\ written = NoWrites
    /\ cleared = {}
    /\ afterClear = [p \in Callers |-> FALSE]
    /\ overtaken = [p \in Callers |-> FALSE]

Init == InitResolver /\ InitFunction /\ InitController /\ InitTool

\* one caller, which awaits each call before it makes the next
Next ==
    \/ \E identifier \in Identifiers : Resolve("c1", identifier)
    \/ \E resp \in Responses(StrategyOf(pc["c1"])) : FetchReturns("c1", resp)
    \/ AuthMissingCaught("c1")
    \/ Completed("c1")
    \/ ClearUserCache
    \/ \E t \in Times : Tick(t)
    \/ \E b \in BOOLEAN : SetCredentials(b)

Spec == Init /\ [][Next]_vars

\* two callers whose calls overlap, for identifiers that share one cache key;
\* the vendor answers with a list
ConcurrentIdentifiers == {Mail, MAIL}
ConcurrentResponses == {Body(<<>>), Body(<<UserBob>>), Body(<<UserEve, UserBob>>)}

InitConc == Init /\ credentials = TRUE

NextConc ==
    \/ \E p \in Callers : \E identifier \in ConcurrentIdentifiers : Resolve(p, identifier)
    \/ \E p \in Callers : \E resp \in ConcurrentResponses : FetchReturns(p, resp)
    \/ \E p \in Callers : Completed(p)
    \/ ClearUserCache
    \/ \E t \in Times : Tick(t)

SpecConc == InitConc /\ [][NextConc]_vars

\* one caller and the identifiers of CanonicalIdentifiers; the vendor answers
\* with a list
NextCanonical ==
    \/ \E identifier \in CanonicalIdentifiers : Resolve("c1", identifier)
    \/ \E resp \in ConcurrentResponses : FetchReturns("c1", resp)
    \/ Completed("c1")
    \/ ClearUserCache
    \/ \E t \in Times : Tick(t)

SpecCanonical == InitConc /\ [][NextCanonical]_vars

\* isAccountId and isEmail called on every string of Strings
InitClassifier ==
    /\ InitResolver /\ InitController /\ InitTool
    /\ arg \in {[identifier |-> x, list |-> <<>>] : x \in Strings}
    /\ value = NotCalled

NextClassifier == CallIsAccountId \/ CallIsEmail

SpecClassifier == InitClassifier /\ [][NextClassifier]_vars

\* the disambiguation applied to every candidate list of CandidateLists
InitFind ==
    /\ InitResolver /\ InitController /\ InitTool
    /\ arg \in [identifier : FindIdentifiers, list : CandidateLists]
    /\ value = NotCalled

NextFind == CallFind

SpecFind == InitFind /\ [][NextFind]_vars

\* the controller's transitionIssue, one call at a time
NextTransition ==
    \/ \E a \in TransitionArgs : TransitionIssue(a)
    \/ TransitionResolves
    \/ AddCommentResolves
    \/ \E updatedIssue \in Issues : GetResolves(updatedIssue)
    \/ \E e \in Errors : ServiceRejects(e)
    \/ ControllerDone

SpecTransition == Init /\ [][NextTransition]_vars

\* the two tool handlers over the controller
NextTool ==
    \/ \E a \in GetTransitionsArgs : ToolGetTransitions(a)
    \/ \E a \in TransitionArgs : ToolTransitionIssue(a)
    \/ \E resp \in GetTransitionsResponses : GetTransitionsResolves(resp)
    \/ \E e \in Errors : GetTransitionsRejects(e)
    \/ TransitionResolves
    \/ AddCommentResolves
    \/ \E updatedIssue \in Issues : GetResolves(updatedIssue)
    \/ \E e \in Errors : ServiceRejects(e)
    \/ ToolReturns
    \/ ToolDone

SpecTool == Init /\ [][NextTool]_vars

\* one caller, at one time of the clock: the steps of the resolver with the
\* strategy calls that return, whatever the vendor answers
NextLive ==
    \/ \E identifier \in Identifiers : Resolve("c1", identifier)
    \/ \E resp \in Responses(StrategyOf(pc["c1"])) : FetchReturns("c1", resp)
    \/ AuthMissingCaught("c1")
    \/ Completed("c1")
    \/ ClearUserCache
    \/ \E b \in BOOLEAN : SetCredentials(b)

\* every strategy call returns: a request that was sent is answered or
\* rejected, and the catch block of a call without credentials runs
StrategyCallsReturn ==
    /\ WF_vars(\E resp \in Responses(StrategyOf(pc["c1"])) : FetchReturns("c1", resp))
    /\ WF_vars(AuthMissingCaught("c1"))

SpecLive == Init /\ [][NextLive]_vars /\ StrategyCallsReturn

-----------------------------------------------------------------------------
(* Properties *)

\* a strategy returned null or an empty list
NullOrEmpty(r) == r.ok = FALSE \/ r.list = <<>>

\* caller p enters resolveUserIdentifier in this step
Enters(p) == pc[p] = "idle" /\ pc'[p] # "idle"

\* the identifier goes to the cache and the network: it is neither empty nor canonical
Resolvable(identifier) == identifier # <<>> /\ ~isAccountId(identifier)

PickerCalls(log) == {i \in 1..Len(log) : log[i].strategy = "picker"}
DirectoryCalls(log) == {i \in 1..Len(log) : log[i].strategy = "directory"}

\* the order the strategies are tried in for an identifier
Chain(identifier) ==
    IF isEmail(identifier)
    THEN <<"picker", "directory", "picker">>
    ELSE <<"directory", "picker">>

C2_FirstNonEmptyListIsUsed ==
    \A p \in Callers :
        (pc[p] = "done" /\ calls[p] # <<>>) =>
            LET log == calls[p]
                n == Len(calls[p])
            IN  /\ \A i \in 1..n : ~NullOrEmpty(log[i].result) => i = n
                /\ users[p] = log[n].result
                /\ outcome[p].kind \in {"id", "absent"}
                /\ outcome[p].kind = "id" =>
                        /\ ~NullOrEmpty(users[p])
                        /\ \E j \in 1..Len(users[p].list) :
                                users[p].list[j].accountId = outcome[p].id
                /\ NullOrEmpty(users[p]) => outcome[p] = Absent

\* a non-email identifier, the directory search failed, the picker found the user
C2_Witness ==
    \E p \in Callers :
        /\ pc[p] = "done" /\ ident[p] = bob /\ Len(calls[p]) = 2
        /\ calls[p][1].strategy = "directory" /\ calls[p][1].result = Null
        /\ calls[p][2].strategy = "picker" /\ calls[p][2].result = Found(<<UserBob>>)
        /\ outcome[p] = Id(Id1)

\* C3, as claimed: a strategy call made without credentials is the last call of
\* its resolution, and the resolution ends in an error.
C3_AuthMissingEndsResolution ==
    \A p \in Callers :
        \A i \in 1..Len(calls[p]) :
            calls[p][i].status = "AuthMissing" =>
                /\ i = Len(calls[p])
                /\ pc[p] = "done" => outcome[p].kind = "error"

\* the fetchAtlassian request caller p awaits is rejected in this step
FetchFails(p) ==
    /\ Awaiting(p)
    /\ calls[p][Len(calls[p])].status = "pending"
    /\ Len(calls'[p]) >= Len(calls[p])
    /\ calls'[p][Len(calls[p])].status = "HttpError"

\* what follows in the resolution of caller p when the awaited call returns u
FollowsAs(p, u) ==
    LET nxt == NextStage(ident[p], pc[p], u)
        out == ResolveResult(u, ident[p])
        n == Len(calls[p])
    IN  IF nxt = "finish"
        THEN /\ pc'[p] = "done"
             /\ outcome'[p] = out
             /\ Len(calls'[p]) = n
             /\ cache' = IF out.kind = "id"
                         THEN UserCacheSet(cache, now, ident[p], out.id) ELSE cache
        ELSE /\ pc'[p] = nxt
             /\ outcome'[p] = outcome[p]
             /\ Len(calls'[p]) = n + 1
             /\ calls'[p][n + 1] = NewCall(StrategyOf(nxt), ident[p], credentials)
             /\ cache' = cache

\* C4: when the request a resolution awaits fails, the strategy returns null,
\* nothing is raised, and the resolution goes on (next call made, value
\* returned, cache) exactly as it does when that call returns an empty list.
C4_TransportFailureIsEmptyResult ==
    [][\A p \in Callers :
            FetchFails(p) =>
                /\ calls'[p][Len(calls[p])].result = Null
                /\ outcome'[p].kind # "error"
                /\ FollowsAs(p, Found(<<>>))]_vars

\* every call of a resolution failed on the network and it returned absent
C4_Witness ==
    \E p \in Callers :
        /\ pc[p] = "done" /\ ident[p] = Mail /\ Len(calls[p]) = 3
        /\ \A i \in 1..3 : calls[p][i].status = "HttpError"
        /\ outcome[p] = Absent
        /\ cache = EmptyCache

C6_AtMostThreeSequentialRoundTrips ==
    \A p \in Callers :
        LET log == calls[p]
            pending == {i \in 1..Len(calls[p]) : calls[p][i].status = "pending"}
        IN  /\ NetworkCalls(log) <= 3
            /\ inflight[p] <= 1
            /\ inflight[p] = Cardinality(pending)
            /\ pending \subseteq {Len(log)}
            /\ NetworkCalls(log) = 3 =>
                    /\ isEmail(ident[p])
                    /\ log[1].strategy = "picker" /\ NullOrEmpty(log[1].result)
                    /\ log[2].strategy = "directory" /\ NullOrEmpty(log[2].result)

\* a resolution that made three round-trips
C6_Witness ==
    \E p \in Callers : pc[p] = "done" /\ NetworkCalls(calls[p]) = 3

\* C7: a cache entry is added or overwritten only in a step in which a
\* resolution of that key, after a strategy call, returns the non-empty
\* accountId of a record of its candidate list, and that accountId is what is
\* stored; so the empty-input, canonical, cache-hit and absent paths write nothing.
C7_CacheWrittenOnlyOnSuccess ==
    [][\A k \in DOMAIN cache' :
            (k \notin DOMAIN cache \/ cache'[k] # cache[k]) =>
                \E p \in Callers :
                    /\ Awaiting(p) /\ pc'[p] = "done"
                    /\ toLowerCase(ident[p]) = k
                    /\ outcome'[p] = Id(cache'[k].accountId)
                    /\ cache'[k].accountId # <<>>
                    /\ cache'[k].timestamp = now
                    /\ ~NullOrEmpty(users'[p])
                    /\ \E j \in 1..Len(users'[p].list) :
                            users'[p].list[j].accountId = cache'[k].accountId]_vars

\* a resolution chose a record without accountId, returned absent and cached
\* nothing, while the entry of another key stayed as it was
C7_Witness ==
    \E p \in Callers :
        /\ pc[p] = "done" /\ outcome[p] = Absent
        /\ ~NullOrEmpty(users[p])
        /\ toLowerCase(ident[p]) \notin DOMAIN cache
        /\ cache # EmptyCache

\* caller p's call returns at once, from the cache, the canonical ID a
CacheHit(p, a) ==
    /\ pc'[p] = "done"
    /\ outcome'[p] = Id(a)
    /\ calls'[p] = <<>>
    /\ inflight'[p] = 0

\* C8, as claimed: when the last call that returned a canonical ID was for the
\* same identifier and returned less than one TTL ago, with no clear since,
\* a call returns that ID at once, without a network call.
C8_SecondCallWithinTtlOfFirstHits ==
    [][\A p \in Callers :
            (/\ Enters(p)
             /\ returned # <<>>
             /\ returned[1].identifier = ident'[p]
             /\ now - returned[1].time < 3600000)
                => CacheHit(p, returned[1].id)]_vars

\* C8, amended: when the key of the identifier was last written to the cache,
\* by a resolution that went through the strategy chain, less than one TTL ago
\* with no clear since, a call returns the ID written then at once, without a
\* network call.
C8_CallWithinTtlOfCacheWriteHits ==
    [][\A p \in Callers :
            (/\ Enters(p)
             /\ Resolvable(ident'[p])
             /\ written[toLowerCase(ident'[p])] # <<>>
             /\ now - written[toLowerCase(ident'[p])][1].time < 3600000)
                => CacheHit(p, written[toLowerCase(ident'[p])][1].id)]_vars

\* a call hit the cache at a later time than the entry was written
C8_Witness ==
    \E p \in Callers :
        /\ pc[p] = "done" /\ calls[p] = <<>> /\ Resolvable(ident[p])
        /\ written[toLowerCase(ident[p])] # <<>>
        /\ outcome[p] = Id(written[toLowerCase(ident[p])][1].id)
        /\ now = written[toLowerCase(ident[p])][1].time + 3600000 - 1

ClearedCacheIsEmpty == cleared # {} => cache = EmptyCache

Clears == cache' = EmptyCache /\ written' = NoWrites /\ returned' = <<>> /\ pc' = pc

\* C10: a call that reads the cache returns the stored ID at once exactly when
\* the lower-cased identifier has an entry with now - timestamp < 3,600,000 ms;
\* otherwise it goes on to the strategies and an entry of that key (then
\* expired, including at exactly one TTL) is deleted, every other entry being
\* kept; an entry leaves the map only by such a read of its key or by a clear.
C10_GetServesUnexpiredAndPurgesExpired ==
    [][/\ \A p \in Callers :
            (Enters(p) /\ Resolvable(ident'[p])) =>
                LET k == toLowerCase(ident'[p]) IN
                IF k \in DOMAIN cache /\ now - cache[k].timestamp < 3600000
                THEN CacheHit(p, cache[k].accountId) /\ cache' = cache
                ELSE /\ pc'[p] \in {"picker", "directory"}
                     /\ DOMAIN cache' = DOMAIN cache \ {k}
                     /\ \A x \in DOMAIN cache' : cache'[x] = cache[x]
       /\ \A k \in DOMAIN cache :
            k \notin DOMAIN cache' =>
                \/ Clears
                \/ \E p \in Callers :
                        /\ Enters(p) /\ toLowerCase(ident'[p]) = k
                        /\ now - cache[k].timestamp >= 3600000]_vars

\* an entry read at exactly one TTL after it was written has been deleted and
\* the call has gone on to a strategy, while an expired entry of another key,
\* not read, is still in the map
C10_Witness ==
    \E p \in Callers :
        /\ Awaiting(p) /\ Len(calls[p]) = 1
        /\ toLowerCase(ident[p]) \notin DOMAIN cache
        /\ written[toLowerCase(ident[p])] # <<>>
        /\ now = written[toLowerCase(ident[p])][1].time + 3600000
        /\ \E x \in DOMAIN cache : now - cache[x].timestamp >= 3600000

\* C11: a call with an identifier for which isAccountId is true, email-shaped
\* or not, returns the identifier itself at once, makes no strategy call and
\* sends no request, and leaves the cache as it was: no entry is added,
\* changed or purged, an expired entry under the identifier's own key included.
C11_CanonicalIdentifierReturnedUntouched ==
    [][\A p \in Callers :
            (Enters(p) /\ isAccountId(ident'[p])) =>
                /\ pc'[p] = "done"
                /\ outcome'[p] = Id(ident'[p])
                /\ calls'[p] = <<>>
                /\ inflight' = inflight
                /\ cache' = cache
                /\ written' = written]_vars

\* a canonical, email-shaped identifier was returned unchanged while the
\* cache held an expired entry under its key, which is still there
C11_Witness ==
    \E p \in Callers :
        /\ pc[p] = "done" /\ ident[p] = CanonicalMail
        /\ isAccountId(ident[p]) /\ isEmail(ident[p])
        /\ outcome[p] = Id(CanonicalMail)
        /\ calls[p] = <<>>
        /\ CanonicalMail \in DOMAIN cache
        /\ now - cache[CanonicalMail].timestamp >= 3600000

\* C12: a call with the empty identifier returns absent at once, makes no
\* strategy call and sends no request, and leaves the cache as it was,
\* whatever the cache holds.
C12_EmptyIdentifierReturnsAbsentUntouched ==
    [][\A p \in Callers :
            (Enters(p) /\ ident'[p] = <<>>) =>
                /\ pc'[p] = "done"
                /\ outcome'[p] = Absent
                /\ calls'[p] = <<>>
                /\ inflight' = inflight
                /\ cache' = cache
                /\ written' = written]_vars

\* the empty identifier was answered with absent while the cache held an
\* expired entry, which is still there
C12_Witness ==
    \E p \in Callers :
        /\ pc[p] = "done" /\ ident[p] = <<>> /\ outcome[p] = Absent
        /\ calls[p] = <<>>
        /\ \E k \in DOMAIN cache : now - cache[k].timestamp >= 3600000

\* two characters are the same letter, in the same or in different case, or
\* the same character
SameIgnoringCase(c, d) ==
    c = d \/ \E n \in 1..26 : {c, d} = {UpperCase[n], LowerCase[n]}

\* a field is present and equals the identifier ignoring letter case
Equals(field, identifier) ==
    /\ field # <<>>
    /\ Len(field[1]) = Len(identifier)
    /\ \A i \in 1..Len(identifier) : SameIgnoringCase(field[1][i], identifier[i])

\* the positions of the records of a list that match the identifier
Matching(list, identifier) ==
    {i \in 1..Len(list) :
        \/ Equals(list[i].emailAddress, identifier)
        \/ Equals(list[i].name, identifier)
        \/ Equals(list[i].displayName, identifier)}

\* C13: the record chosen from a non-empty list is the one at the least
\* position whose emailAddress, name or displayName equals the identifier
\* ignoring letter case, and the first record of the list when there is none.
C13_FirstExactMatchElseFirstRecord ==
    value.fn = "find" =>
        LET matching == Matching(arg.list, arg.identifier) IN
        IF matching = {}
        THEN value.result = arg.list[1]
        ELSE \E i \in matching :
                /\ \A j \in matching : i <= j
                /\ value.result = arg.list[i]

\* of two matching records, one by displayName and a later one by name in
\* another case, the earlier was chosen, and it is not the first of the list
C13_Witness ==
    /\ value.fn = "find"
    /\ arg.identifier = bob
    /\ arg.list = <<UserEve, UserNoId, UserBob>>
    /\ value.result = UserNoId

\* the record of a non-empty list that the identifier selects
Selected(list, identifier) ==
    LET matching == Matching(list, identifier) IN
    IF matching = {} THEN list[1]
    ELSE list[CHOOSE i \in matching : \A j \in matching : i <= j]

\* C14: when the record selected from the candidate list has no accountId,
\* the resolution returns absent, not an error, makes no further strategy
\* call and writes nothing to the cache, whatever the other records of the
\* list carry and whichever strategies are left in the chain.
C14_ChosenWithoutIdGivesAbsent ==
    [][\A p \in Callers :
            (/\ Awaiting(p) /\ pc'[p] # pc[p]
             /\ ~NullOrEmpty(users'[p])
             /\ Selected(users'[p].list, ident[p]).accountId = <<>>)
                => /\ pc'[p] = "done"
                   /\ outcome'[p] = Absent
                   /\ Len(calls'[p]) = Len(calls[p])
                   /\ cache' = cache
                   /\ written' = written]_vars

\* the directory search returned a record without accountId, selected by its
\* displayName, ahead of a record that has one: the call returned absent, the
\* picker was never tried and the key has no cache entry
C14_Witness ==
    \E p \in Callers :
        /\ pc[p] = "done" /\ ident[p] = Bob
        /\ Len(calls[p]) = 1 /\ calls[p][1].strategy = "directory"
        /\ users[p] = Found(<<UserNoId, UserBob>>)
        /\ outcome[p] = Absent
        /\ toLowerCase(Bob) \notin DOMAIN cache

\* the string starts with lo to hi lower-case hexadecimal characters and a colon
HexPrefixColon(x, lo, hi) ==
    \E n \in lo..hi :
        /\ Len(x) > n
        /\ \A i \in 1..n : x[i] \in HexLower
        /\ x[n + 1] = ":"

\* the string has 36 characters, each a hexadecimal digit or a hyphen
UuidShaped(x) ==
    Len(x) = 36 /\ \A i \in 1..36 : x[i] \in HexLower \cup {"-"}

\* C15, as claimed: isAccountId is true of every string that starts with 1 to
\* 8 lower-case hexadecimal characters and a colon and of every 36-character
\* string of hexadecimal digits and hyphens, and false of "johndoe",
\* "John Doe" and "".
C15_AccountIdShapes ==
    value.fn = "isAccountId" =>
        /\ HexPrefixColon(arg.identifier, 1, 8) => value.result = TRUE
        /\ UuidShaped(arg.identifier) => value.result = TRUE
        /\ arg.identifier \in {johndoe, JohnDoe, <<>>} => value.result = FALSE

\* the positions of a character in a string
Positions(x, c) == {i \in 1..Len(x) : x[i] = c}

\* one "@", not first; no whitespace; after the "@" at least one character,
\* then a "." that is not the last character
EmailShaped(x) ==
    /\ Cardinality(Positions(x, "@")) = 1
    /\ \A i \in 1..Len(x) : x[i] \notin {" ", "\t", "\n"}
    /\ \E a \in Positions(x, "@") :
            /\ a > 1
            /\ \E d \in Positions(x, ".") : d > a + 1 /\ d < Len(x)

\* C16: isEmail is true of exactly the strings made of one or more characters
\* that are neither whitespace nor "@", one "@", one or more such characters,
\* a "." and one or more such characters up to the end; so it is false of "",
\* "@example.com", "user@" and "johndoe", and of every string with two "@"
\* or with whitespace.
C16_EmailShape ==
    value.fn = "isEmail" =>
        /\ value.result = EmailShaped(arg.identifier)
        /\ arg.identifier \in {<<>>, NoLocalPart, NoDomain, johndoe} =>
                value.result = FALSE
        /\ Cardinality(Positions(arg.identifier, "@")) >= 2 => value.result = FALSE
        /\ Positions(arg.identifier, " ") # {} => value.result = FALSE

\* isEmail was true of a string whose domain is a "." before the last "."
C16_Witness ==
    /\ value.fn = "isEmail"
    /\ arg.identifier = <<"a", "@", ".", ".", "a">>
    /\ value.result = TRUE

\* the keys of a cache that equal the identifier ignoring letter case
KeysOf(c, identifier) == {k \in DOMAIN c : Equals(<<k>>, identifier)}

\* a string has no upper-case letter
LowerCased(x) == \A i \in 1..Len(x) : \A n \in 1..26 : x[i] # UpperCase[n]

\* caller p's resolution ends in this step with a canonical ID, which it caches
Sets(p) == Awaiting(p) /\ pc'[p] = "done" /\ outcome'[p].kind = "id"

\* C17: the cache is keyed by the lower-cased identifier.  A resolution that
\* caches an ID for identifier b leaves exactly one entry whose key equals b
\* ignoring letter case, under a key without upper-case letters, holding that
\* ID and the current time, whether or not an entry written for another
\* spelling was there, and changes no other entry; and a call for b is served
\* from an unexpired entry whose key equals b ignoring letter case.
C17_KeysAreLowerCased ==
    [][\A p \in Callers :
            /\ Sets(p) =>
                    /\ Cardinality(KeysOf(cache', ident[p])) = 1
                    /\ \A k \in KeysOf(cache', ident[p]) :
                            /\ LowerCased(k)
                            /\ cache'[k] = [accountId |-> outcome'[p].id,
                                            timestamp |-> now]
                    /\ DOMAIN cache' = DOMAIN cache \cup KeysOf(cache', ident[p])
                    /\ \A k \in DOMAIN cache \ KeysOf(cache', ident[p]) :
                            cache'[k] = cache[k]
            /\ (Enters(p) /\ Resolvable(ident'[p])) =>
                    \A k \in KeysOf(cache, ident'[p]) :
                        now - cache[k].timestamp < 3600000 =>
                            CacheHit(p, cache[k].accountId)]_vars

\* an ID was cached for "a@b.c" and another for "A@b.c": the cache has the
\* one entry, under "a@b.c", with the ID cached for "A@b.c"
C17_Witness ==
    \E p, q \in Callers :
        /\ pc[p] = "done" /\ ident[p] = MAIL /\ calls[p] # <<>>
        /\ pc[q] = "done" /\ ident[q] = Mail /\ calls[q] # <<>>
        /\ outcome[q] = Id(Id2) /\ outcome[p] = Id(Id1)
        /\ DOMAIN cache = {Mail}
        /\ cache[Mail].accountId = Id1

\* caller q has a resolution in flight for the key that caller p's identifier has
InFlightForSameKey(q, p, identifier) ==
    /\ q # p
    /\ Awaiting(q)
    /\ Equals(<<ident[q]>>, identifier)

\* C18: resolutions in flight for the same key are not merged.  While another
\* caller's resolution of the key is in flight, a call that finds no unexpired
\* entry sends its own request; the answer to one caller's request settles
\* nothing of the other's; and a resolution that ends with a canonical ID
\* while the key has an entry, which a resolution overlapping it has written
\* since it missed the cache, replaces that entry by its ID and the current time.
C18_InFlightLookupsNotDeduplicated ==
    [][\A p, q \in Callers :
            /\ (/\ Enters(p)
                /\ InFlightForSameKey(q, p, ident'[p])
                /\ \A k \in KeysOf(cache, ident'[p]) :
                        now - cache[k].timestamp >= 3600000)
                    => /\ Awaiting(p)'
                       /\ inflight'[p] = 1
                       /\ Len(calls'[p]) = 1
                       /\ calls'[p][1].query = ident'[p]
                       /\ calls'[p][1].status = "pending"
            /\ (/\ Awaiting(p) /\ pc'[p] # pc[p]
                /\ InFlightForSameKey(q, p, ident[p]))
                    => /\ pc'[q] = pc[q]
                       /\ calls'[q] = calls[q]
                       /\ inflight'[q] = inflight[q]
                       /\ outcome'[q] = outcome[q]
            /\ (Sets(p) /\ KeysOf(cache, ident[p]) # {})
                    => \A k \in KeysOf(cache, ident[p]) :
                            cache'[k] = [accountId |-> outcome'[p].id,
                                        timestamp |-> now]]_vars

\* while one caller still awaits its request for "a@b.c"/"A@b.c", the other
\* has finished its own strategy call for the same key and its ID is the
\* unexpired entry of the key, written after the first caller missed the cache
C18_Witness ==
    \E p, q \in Callers :
        /\ p # q
        /\ Awaiting(q) /\ inflight[q] = 1
        /\ pc[p] = "done" /\ calls[p] # <<>> /\ outcome[p].kind = "id"
        /\ Equals(<<ident[q]>>, ident[p])
        /\ \E k \in KeysOf(cache, ident[q]) :
                /\ cache[k].accountId = outcome[p].id
                /\ now - cache[k].timestamp < 3600000

\* the functions the controller calls for its args, in the order of the code
Sequence(a) ==
    <<"transitionIssue">>
        \o (IF a.comment \notin {<<>>, <<"">>} THEN <<"addComment">> ELSE <<>>)
        \o <<"get", "formatTransitionResult">>

\* C19: the calls the controller has made are the first ones of:
\* transitionIssue with the transition id, fields and update of the args;
\* addComment with the comment, only when the args have a non-empty comment;
\* get with the fields status and summary; formatTransitionResult.  Every
\* call before the last has resolved, and the content returned holds the key,
\* the summary and the status name (or "Unknown") of the issue get resolved to.
C19_TransitionCommentRefetchInOrder ==
    LET log == serviceCalls
        n == Len(serviceCalls)
    IN  /\ n <= Len(Sequence(args))
        /\ step # "idle" => n >= 1
        /\ \A i \in 1..n :
                /\ log[i].fn = Sequence(args)[i]
                /\ log[i].issueIdOrKey = args.issueIdOrKey
                /\ i < n => log[i].status = "resolved"
                /\ log[i].fn = "transitionIssue" =>
                        log[i].params = [transition |-> [id |-> args.transitionId],
                                         fields |-> args.fields, update |-> args.update]
                /\ log[i].fn = "addComment" =>
                        log[i].params = [body |-> [body |-> args.comment[1]]]
                /\ log[i].fn = "get" =>
                        log[i].params = [fields |-> <<"status", "summary">>]
        /\ step \in {"transitionIssue", "addComment", "get"} =>
                log[n].fn = step /\ log[n].status = "pending"
        /\ step = "returned" =>
                /\ n = Len(Sequence(args))
                /\ log[n].status = "resolved"
                /\ response.kind = "content"
                /\ LET updatedIssue == log[n].params[3] IN
                   /\ log[n].params = <<args.issueIdOrKey, args.transitionId, updatedIssue>>
                   /\ response.content[2] = args.issueIdOrKey
                   /\ response.content[3] = updatedIssue.key
                   /\ response.content[4] = updatedIssue.summary
                   /\ response.content[5] =
                        (IF updatedIssue.status \in {<<>>, <<"">>}
                         THEN "Unknown" ELSE updatedIssue.status[1])
                   /\ response.content[6] = args.transitionId

\* a transition with a comment has returned its content after the three
\* service calls, with the status of the re-fetched issue
C19_Witness ==
    /\ step = "returned"
    /\ Len(serviceCalls) = 4
    /\ serviceCalls[2].fn = "addComment" /\ serviceCalls[3].fn = "get"
    /\ response.content[5] = "In Progress"

\* C20: a rejected service call is the last call the controller makes: the
\* controller has then raised the error the call was rejected with, has
\* called nothing after it (no addComment and no get after a failed
\* transitionIssue, no get after a failed addComment) and has not called
\* formatTransitionResult; and the controller raises only in this way.
C20_FailingStepStopsAndPropagates ==
    LET log == serviceCalls
        n == Len(serviceCalls)
    IN  /\ \A i \in 1..n :
                log[i].status = "rejected" =>
                    /\ i = n
                    /\ step = "raised"
                    /\ response = [kind |-> "error", content |-> <<>>,
                                   error |-> log[i].error]
                    /\ \A j \in 1..n : log[j].fn # "formatTransitionResult"
                    /\ log[i].fn = "transitionIssue" =>
                            \A j \in 1..n : log[j].fn \notin {"addComment", "get"}
                    /\ log[i].fn = "addComment" =>
                            \A j \in 1..n : log[j].fn # "get"
        /\ step = "raised" => n >= 1 /\ log[n].status = "rejected"
        /\ response.kind = "error" => step = "raised"

\* addComment failed after the transition: the controller raised its error
\* and made no further call
C20_Witness ==
    /\ step = "raised"
    /\ Len(serviceCalls) = 2
    /\ serviceCalls[1].fn = "transitionIssue" /\ serviceCalls[1].status = "resolved"
    /\ serviceCalls[2].fn = "addComment" /\ serviceCalls[2].status = "rejected"
    /\ response.error = "Failed to add comment"

\* C21: a tool handler never raises to the MCP server: what it hands over is
\* always a content.  When the controller raised an error, the content is the
\* one formatErrorForMcpTool makes of that error, which is the error the
\* service call was rejected with; when the controller returned, the content
\* is exactly one text item that holds the controller's content.
C21_ToolHandlersNeverRaise ==
    /\ result.kind \in {"none", "content"}
    /\ result # NoResult =>
        /\ tool \in {"getTransitions", "transitionIssue"}
        /\ step \in {"returned", "raised"}
        /\ step = "raised" =>
            /\ response.error = serviceCalls[Len(serviceCalls)].error
            /\ result.content = formatErrorForMcpTool(response.error).content
        /\ step = "returned" =>
            /\ Len(result.content) = 1
            /\ result.content[1] = [type |-> "text", text |-> response.content]

\* the getTransitions handler has returned the formatted error of a rejected
\* service call
C21_Witness ==
    /\ tool = "getTransitions"
    /\ step = "raised"
    /\ serviceCalls[1].status = "rejected"
    /\ result = [kind |-> "content",
                 content |-> formatErrorForMcpTool("Invalid transition").content]

\* C22: a strategy call returns null only when the call failed: a call that
\* was rejected by the transport or made without credentials has returned
\* null, and a call the vendor answered, with users, with an empty list of
\* them or with no users section, has returned a list.
C22_NullOnlyOnFailure ==
    \A p \in Callers :
        \A i \in 1..Len(calls[p]) :
            LET call == calls[p][i]
            IN  /\ call.status \in {"HttpError", "AuthMissing"} => call.result = Null
                /\ call.status \in {"Users", "NoUsersSection"} => call.result.ok

\* C23, as claimed: when the key of a non-empty identifier was written to the
\* cache less than one TTL ago with no clear since, by a resolution of an
\* identifier with the same letters, a call with the identifier returns the
\* ID written then at once, without a network call.
C23_AnyLetterCaseHits ==
    [][\A p \in Callers :
            (/\ Enters(p)
             /\ ident'[p] # <<>>
             /\ written[toLowerCase(ident'[p])] # <<>>
             /\ now - written[toLowerCase(ident'[p])][1].time < 3600000)
                => CacheHit(p, written[toLowerCase(ident'[p])][1].id)]_vars

\* C23, amended: under the same condition the call returns at once, without a
\* strategy call, and leaves every entry as it is; it returns the ID written
\* then when the identifier is not of the canonical shape, and the identifier
\* itself when it is.
C23_NonCanonicalLetterCaseHits ==
    [][\A p \in Callers :
            LET k == toLowerCase(ident'[p])
            IN  (/\ Enters(p)
                 /\ ident'[p] # <<>>
                 /\ written[k] # <<>>
                 /\ now - written[k][1].time < 3600000)
                    => /\ CacheHit(p, IF isAccountId(ident'[p])
                                      THEN ident'[p] ELSE written[k][1].id)
                       /\ cache' = cache
                       /\ cache[k].accountId = written[k][1].id]_vars

\* an ID was cached under the key of "5bc73a:a@b.c" less than one TTL ago, by
\* a resolution of the same letters in another case, and the call with
\* "5bc73a:a@b.c" has returned the identifier, not that ID
C23_Witness ==
    \E p \in Callers :
        /\ pc[p] = "done" /\ ident[p] = CanonicalMail /\ calls[p] = <<>>
        /\ written[CanonicalMail] # <<>>
        /\ now - written[CanonicalMail][1].time < 3600000
        /\ cache[CanonicalMail].accountId = written[CanonicalMail][1].id
        /\ outcome[p] = Id(CanonicalMail)
        /\ outcome[p] # Id(written[CanonicalMail][1].id)

\* C24: under every interleaving of overlapping resolutions and clears, an
\* entry of the cache is never partial: it is, whole, the ID and the time of
\* the last write of its key since the last clear.  A write of a key stores
\* an accountId of the list that a strategy call of the writing resolution,
\* for a query with that lower-cased form, returned, with the current time.
\* A call that returns from the cache returns the ID of the last write of
\* its identifier's key, made less than one TTL before; so a write that
\* another one replaced costs at most a further network call.
C24_HitsServeWholeFreshEntries ==
    /\ [](\A k \in DOMAIN cache :
            /\ written[k] # <<>>
            /\ cache[k].accountId # <<>>
            /\ cache[k] = [accountId |-> written[k][1].id,
                           timestamp |-> written[k][1].time]
            /\ cache[k].timestamp <= now)
    /\ [][\A p \in Callers :
            LET k == toLowerCase(ident'[p])
                log == calls'[p]
            IN  /\ (Enters(p) /\ pc'[p] = "done" /\ outcome'[p].kind = "id") =>
                    /\ calls'[p] = <<>>
                    /\ written[k] # <<>>
                    /\ outcome'[p].id = written[k][1].id
                    /\ now - written[k][1].time < 3600000
                    /\ now - written[k][1].time >= 0
                /\ (Enters(p) /\ pc'[p] # "done") =>
                    (k \notin DOMAIN cache \/ now - cache[k].timestamp >= 3600000)
                /\ written'[k] # written[k] /\ Sets(p) =>
                    /\ written'[k] = <<[id |-> outcome'[p].id, time |-> now]>>
                    /\ log # <<>>
                    /\ toLowerCase(log[Len(log)].query) = k
                    /\ log[Len(log)].result.ok
                    /\ \E j \in 1..Len(log[Len(log)].result.list) :
                            log[Len(log)].result.list[j].accountId = outcome'[p].id]_vars

\* a resolution of "a@b.c" or "A@b.c" wrote its ID one millisecond before a
\* whole TTL, and the call with the other spelling, one millisecond later,
\* was served that ID from the entry, which is the write, whole
C24_Witness ==
    \E p, q \in Callers :
        /\ p # q
        /\ pc[q] = "done" /\ calls[q] # <<>> /\ outcome[q].kind = "id"
        /\ pc[p] = "done" /\ calls[p] = <<>> /\ outcome[p] = outcome[q]
        /\ toLowerCase(ident[p]) = toLowerCase(ident[q])
        /\ ident[p] # ident[q]
        /\ toLowerCase(ident[p]) \in DOMAIN cache
        /\ cache[toLowerCase(ident[p])] =
                [accountId |-> outcome[p].id, timestamp |-> 3600000 - 1]
        /\ returned = <<[identifier |-> ident[p], id |-> outcome[p].id,
                         time |-> 3600000]>>

\* C25, as claimed: a resolution that was in flight when clearUserCache()
\* ran writes no entry when it finishes.
C25_OvertakenResolutionWritesNothing ==
    [][\A p \in Callers :
            (Awaiting(p) /\ overtaken[p] /\ pc'[p] = "done") => cache' = cache]_vars

\* C25, amended: clearUserCache() empties the cache and leaves a resolution
\* in flight as it is; such a resolution runs on and, when it ends with a
\* canonical ID, writes that ID with the current time under its key, as any
\* other does; so after a clear the cache is empty until a resolution, begun
\* before or after the clear, ends with a canonical ID.
C25_ClearDoesNotCancelInFlight ==
    /\ [][\A p \in Callers :
            /\ (~overtaken[p] /\ overtaken'[p]) =>
                    /\ Awaiting(p)
                    /\ cache' = EmptyCache
                    /\ pc' = pc /\ ident' = ident /\ calls' = calls
                    /\ inflight' = inflight /\ users' = users
            /\ (Sets(p) /\ overtaken[p]) =>
                    /\ toLowerCase(ident[p]) \in DOMAIN cache'
                    /\ cache'[toLowerCase(ident[p])] =
                            [accountId |-> outcome'[p].id, timestamp |-> now]
            /\ (cache = EmptyCache /\ cache' # EmptyCache) =>
                    \E q \in Callers : Sets(q)]_vars
    /\ [](written = NoWrites => cache = EmptyCache)

\* a resolution that clearUserCache() overtook has ended with a canonical ID,
\* and its entry is the only one in the cache
C25_Witness ==
    \E p \in Callers :
        /\ pc[p] = "done" /\ overtaken[p]
        /\ outcome[p].kind = "id"
        /\ DOMAIN cache = {toLowerCase(ident[p])}
        /\ cache[toLowerCase(ident[p])] =
                [accountId |-> outcome[p].id, timestamp |-> now]

C27_HitDoesNotExtendLife ==
    /\ [](\A k \in DOMAIN cache :
            written[k] # <<>> /\ cache[k].timestamp = written[k][1].time)
    /\ [][/\ \A p \in Callers :
                LET k == toLowerCase(ident'[p])
                IN  /\ (Enters(p) /\ Resolvable(ident'[p]) /\ pc'[p] = "done") =>
                            cache' = cache /\ written' = written
                    /\ (/\ Enters(p) /\ Resolvable(ident'[p])
                        /\ written[k] # <<>>
                        /\ now >= written[k][1].time + 3600000)
                            => /\ pc'[p] \in {"picker", "directory"}
                               /\ k \notin DOMAIN cache'
          /\ \A k \in DOMAIN cache' :
                (k \notin DOMAIN cache \/ cache'[k].timestamp # cache[k].timestamp) =>
                    \E p \in Callers :
                        /\ Sets(p)
                        /\ toLowerCase(ident[p]) = k
                        /\ NetworkCalls(calls'[p]) >= 1
                        /\ cache'[k].timestamp = now]_vars

\* an entry written at time 0 served a call one millisecond before a whole
\* TTL, and the call at exactly one TTL was not served: it deleted the entry
\* and went on to a strategy
C27_Witness ==
    \E p \in Callers :
        /\ Awaiting(p)
        /\ now = 3600000
        /\ written[toLowerCase(ident[p])] # <<>>
        /\ written[toLowerCase(ident[p])][1].time = 0
        /\ returned # <<>>
        /\ returned[1].time = 3600000 - 1
        /\ toLowerCase(returned[1].identifier) = toLowerCase(ident[p])
        /\ toLowerCase(ident[p]) \notin DOMAIN cache

\* the entries of c other than the one of key k are in d, unchanged, and d
\* has no key but those of c and k
OnlyKeyTouched(c, d, k) ==
    /\ DOMAIN d \subseteq DOMAIN c \cup {k}
    /\ \A x \in DOMAIN c \ {k} : x \in DOMAIN d /\ d[x] = c[x]

\* C28: a cache operation touches the entry of its own key only.  For every
\* cache the program reaches and every identifier, get leaves the map as it
\* is or, when the entry of the lower-cased identifier is expired, without
\* that entry, and set leaves every entry of another key as it is and the
\* given ID with the current time under the lower-cased identifier.  In a
\* step of the program the map changes by one get, by one set or by a clear,
\* and an unexpired entry leaves the map in a clear only.
C28_OperationsTouchOwnKeyOnly ==
    /\ [](\A identifier \in Identifiers \ {<<>>} :
            LET k == toLowerCase(identifier)
                got == UserCacheAfterGet(cache, now, identifier)
                put == UserCacheSet(cache, now, identifier, Id1)
            IN  /\ OnlyKeyTouched(cache, got, k)
                /\ k \in DOMAIN got =>
                        /\ k \in DOMAIN cache
                        /\ got[k] = cache[k]
                        /\ now - cache[k].timestamp < 3600000
                /\ (k \in DOMAIN cache /\ k \notin DOMAIN got) =>
                        now - cache[k].timestamp >= 3600000
                /\ OnlyKeyTouched(cache, put, k)
                /\ DOMAIN put = DOMAIN cache \cup {k}
                /\ put[k] = [accountId |-> Id1, timestamp |-> now])
    /\ [][/\ \A p \in Callers :
                /\ Enters(p) =>
                        OnlyKeyTouched(cache, cache', toLowerCase(ident'[p]))
                /\ Sets(p) =>
                        OnlyKeyTouched(cache, cache', toLowerCase(ident[p]))
          /\ cache' # cache =>
                \/ Clears
                \/ \E p \in Callers : Enters(p) \/ Sets(p)
          /\ \A x \in DOMAIN cache :
                (x \notin DOMAIN cache' /\ now - cache[x].timestamp < 3600000) =>
                    Clears]_vars

\* a resolution has written the entry of its key while the expired entry of
\* another key, which nothing has read, is still in the map
C28_Witness ==
    \E p \in Callers :
        /\ pc[p] = "done" /\ outcome[p].kind = "id" /\ calls[p] # <<>>
        /\ toLowerCase(ident[p]) \in DOMAIN cache
        /\ cache[toLowerCase(ident[p])] =
                [accountId |-> outcome[p].id, timestamp |-> now]
        /\ \E x \in DOMAIN cache :
                /\ x # toLowerCase(ident[p])
                /\ now - cache[x].timestamp >= 3600000

\* C29: when every strategy call returns, a call of resolveUserIdentifier
\* that awaits a strategy call returns in the end, with a canonical ID or
\* with absent; and it never makes more than three strategy calls, nor the
\* same request twice before it goes on.
C29_ResolutionTerminates ==
    /\ \A p \in {"c1"} :
            Awaiting(p) ~> (pc[p] = "done" /\ outcome[p].kind \in {"id", "absent"})
    /\ [](\A p \in {"c1"} : Len(calls[p]) <= 3)
    /\ [][\A p \in {"c1"} :
            (Awaiting(p) /\ calls'[p] # calls[p]) =>
                \/ Len(calls'[p]) > Len(calls[p])
                \/ calls[p][Len(calls[p])].status = "pending"]_vars

\* a resolution has returned absent after the three strategy calls of an
\* email-shaped identifier, the first of them made without credentials
C29_Witness ==
    /\ pc["c1"] = "done"
    /\ outcome["c1"] = Absent
    /\ Len(calls["c1"]) = 3
    /\ calls["c1"][1].status = "AuthMissing"
    /\ calls["c1"][3].status = "Users"

\* C30: the controller does not compensate.  When it has raised the error of
\* a rejected addComment or get, the first call it made is the service's
\* transitionIssue for the issue and the transition asked for, which has
\* resolved; it has made no other transitionIssue call and no call at all
\* after the rejected one; and what the caller gets is the error.
C30_NoCompensationAfterTransition ==
    LET log == serviceCalls
        n == Len(serviceCalls)
    IN  \A r \in 1..n :
        (log[r].status = "rejected" /\ log[r].fn \in {"addComment", "get"}) =>
            /\ step = "raised"
            /\ r = n /\ n >= 2
            /\ log[1] = [ServiceCall("transitionIssue", args.issueIdOrKey,
                                     TransitionParams(args))
                            EXCEPT !.status = "resolved"]
            /\ \A i \in 2..n : log[i].fn \in {"addComment", "get"}
            /\ \A i \in 1..(n - 1) : log[i].status = "resolved"
            /\ response = [kind |-> "error", content |-> <<>>, error |-> log[n].error]

\* the transition and the comment went through and the re-fetch failed: the
\* controller raised the error of get after the resolved transitionIssue
C30_Witness ==
    /\ step = "raised"
    /\ Len(serviceCalls) = 3
    /\ serviceCalls[1].fn = "transitionIssue" /\ serviceCalls[1].status = "resolved"
    /\ serviceCalls[2].fn = "addComment" /\ serviceCalls[2].status = "resolved"
    /\ serviceCalls[3].fn = "get" /\ serviceCalls[3].status = "rejected"
    /\ response.kind = "error"

====
